---------------------------- MODULE Spec2Model ----------------------------
(***************************************************************************)
(* Front end of a small imperative language: lexer (lexer.c), recursive    *)
(* descent parser (parser.c) and semantic analyzer (semantic.c).           *)
(*                                                                         *)
(* Source text is a TLA+ string; a character is a string of length one.    *)
(* C's 0-based cursor is kept: the character under cursor p is             *)
(* SubSeq(input, p+1, p+1), and the terminating NUL is the value NUL.      *)
(* AST nodes live in a heap (a sequence of node records); a node pointer   *)
(* is an index into the heap and the null pointer is 0.                    *)
(***************************************************************************)
EXTENDS Integers, Sequences, FiniteSets, TLC
(***************************************************************************)
(* Lexer: lexer.c                                                          *)
(***************************************************************************)

\* The string terminator '\0' that input[*pos] yields at the end of the text.
NUL == "NUL"

\* sizeof(token.lexeme) - 1: the most characters a lexeme keeps.
LexemeCap == 99

Digits == {"0", "1", "2", "3", "4", "5", "6", "7", "8", "9"}

Letters ==
  {"a", "b", "c", "d", "e", "f", "g", "h", "i", "j", "k", "l", "m",
   "n", "o", "p", "q", "r", "s", "t", "u", "v", "w", "x", "y", "z",
   "A", "B", "C", "D", "E", "F", "G", "H", "I", "J", "K", "L", "M",
   "N", "O", "P", "Q", "R", "S", "T", "U", "V", "W", "X", "Y", "Z"}

isdigit(c) == c \in Digits
isalpha(c) == c \in Letters
isalnum(c) == isalpha(c) \/ isdigit(c)

\* input[p] of the C code, for 0 <= p <= strlen(input).
CharAt(input, p) ==
  IF p < Len(input) THEN SubSeq(input, p + 1, p + 1) ELSE NUL

\* The keywords table and is_keyword: the token type of a keyword, 0 otherwise.
is_keyword(word) ==
  CASE word = "if"     -> "IF"
    [] word = "while"  -> "WHILE"
    [] word = "repeat" -> "REPEAT"
    [] word = "until"  -> "UNTIL"
    [] word = "int"    -> "INT"
    [] word = "print"  -> "PRINT"
    [] OTHER           -> "0"

\* One character skipped: (*pos)++, and current_line++ if it is a newline.
SkipChar(input, r) ==
  [pos  |-> r.pos + 1,
   line |-> IF CharAt(input, r.pos) = "\n" THEN r.line + 1 ELSE r.line]

\* The inner whitespace loop of get_next_token: r = [pos, line].
RECURSIVE SkipWhitespace(_, _)
SkipWhitespace(input, r) ==
  IF CharAt(input, r.pos) \in {" ", "\n", "\t"}
  THEN SkipWhitespace(input, SkipChar(input, r))
  ELSE r

\* The body of a block comment, up to (not including) the closing "*/".
RECURSIVE SkipCommentBody(_, _)
SkipCommentBody(input, r) ==
  IF CharAt(input, r.pos) /= NUL
     /\ ~(CharAt(input, r.pos) = "*" /\ CharAt(input, r.pos + 1) = "/")
  THEN SkipCommentBody(input, SkipChar(input, r))
  ELSE r

\* A variant of SkipCommentEnd that skips two characters whether or not the
\* comment was closed.
SkipCommentEnd_unchecked(input, r) == [r EXCEPT !.pos = r.pos + 2]

\* After the body of a comment: skip the closing "*/" unless the text ended.
SkipCommentEnd(input, r) ==
  IF CharAt(input, r.pos) /= NUL THEN [r EXCEPT !.pos = r.pos + 2] ELSE r

\* The outer while (1) loop: whitespace and block comments before a token.
\* SkipComment is its second half, entered with the whitespace skipped.
RECURSIVE SkipBlanks(_, _), SkipComment(_, _)
SkipBlanks(input, r) == SkipComment(input, SkipWhitespace(input, r))

SkipComment(input, w) ==
  IF CharAt(input, w.pos) = "/" /\ CharAt(input, w.pos + 1) = "*"
  THEN SkipBlanks(input,
         SkipCommentEnd(input,
           SkipCommentBody(input, [w EXCEPT !.pos = w.pos + 2])))
  ELSE w

\* The do-while loop that collects a number, after its first iteration: p is the
\* cursor and i the number of characters stored so far; the final cursor.
RECURSIVE ScanDigits(_, _, _)
ScanDigits(input, p, i) ==
  IF isdigit(CharAt(input, p)) /\ i < LexemeCap
  THEN ScanDigits(input, p + 1, i + 1)
  ELSE p

\* The same loop for an identifier or keyword.
RECURSIVE ScanWord(_, _, _)
ScanWord(input, p, i) ==
  IF (isalnum(CharAt(input, p)) \/ CharAt(input, p) = "_") /\ i < LexemeCap
  THEN ScanWord(input, p + 1, i + 1)
  ELSE p

Lexeme(input, from, to) == SubSeq(input, from + 1, to)

MkToken(type, lexeme, line, error) ==
  [type |-> type, lexeme |-> lexeme, line |-> line, error |-> error]

\* What get_next_token hands back: the cursor and current_line it leaves,
\* and the token.
Lexed(type, lexeme, line, error, pos, cur) ==
  [pos |-> pos, current_line |-> cur,
   token |-> MkToken(type, lexeme, line, error)]

\* The number that starts at cursor from and ends before cursor to.
NumberToken(input, from, to, line, cur) ==
  Lexed("NUMBER", Lexeme(input, from, to), line, "NONE", to, cur)

\* The identifier or keyword that starts at cursor from and ends before
\* cursor to.
WordToken(input, from, to, line, cur) ==
  Lexed(IF is_keyword(Lexeme(input, from, to)) /= "0"
        THEN is_keyword(Lexeme(input, from, to)) ELSE "IDENTIFIER",
        Lexeme(input, from, to), line, "NONE", to, cur)

\* The switch over the first character c of an operator or delimiter; p is
\* the cursor after that character.
OperatorToken(input, p, c, line, cur) ==
  CASE c \in {"+", "-", "*", "/"} -> Lexed("OPERATOR", c, line, "NONE", p, cur)
    [] c = ">" ->
         IF CharAt(input, p) = "="
         THEN Lexed("OPERATOR", ">=", line, "NONE", p + 1, cur)
         ELSE Lexed("OPERATOR", c, line, "NONE", p, cur)
    [] c = "<" ->
         IF CharAt(input, p) = "="
         THEN Lexed("OPERATOR", "<=", line, "NONE", p + 1, cur)
         ELSE Lexed("OPERATOR", c, line, "NONE", p, cur)
    [] c = "=" ->
         IF CharAt(input, p) = "="
         THEN Lexed("OPERATOR", "==", line, "NONE", p + 1, cur)
         ELSE Lexed("EQUALS", c, line, "NONE", p, cur)
    [] c = ";" -> Lexed("SEMICOLON", c, line, "NONE", p, cur)
    [] c = "(" -> Lexed("LPAREN", c, line, "NONE", p, cur)
    [] c = ")" -> Lexed("RPAREN", c, line, "NONE", p, cur)
    [] c = "{" -> Lexed("LBRACE", c, line, "NONE", p, cur)
    [] c = "}" -> Lexed("RBRACE", c, line, "NONE", p, cur)
    [] OTHER   -> Lexed("ERROR", c, line, "INVALID_CHAR", p, cur)

\* A variant of TokenAt in which the end of the text leaves the line
\* counter where the blanks left it.
TokenAt_keeping_line(input, b, line) ==
  CASE CharAt(input, b.pos) = NUL ->
         Lexed("EOF", "EOF", line, "NONE", b.pos, b.line)
    [] isdigit(CharAt(input, b.pos)) ->
         NumberToken(input, b.pos, ScanDigits(input, b.pos + 1, 1), line,
                     b.line)
    [] isalpha(CharAt(input, b.pos)) \/ CharAt(input, b.pos) = "_" ->
         WordToken(input, b.pos, ScanWord(input, b.pos + 1, 1), line, b.line)
    [] OTHER ->
         OperatorToken(input, b.pos + 1, CharAt(input, b.pos), line, b.line)

\* The token at cursor b.pos, where the blanks ended in state
\* b = [pos, line]; line is the value of current_line when get_next_token
\* was entered.
TokenAt(input, b, line) ==
  CASE CharAt(input, b.pos) = NUL ->
         Lexed("EOF", "EOF", line, "NONE", b.pos, 0)
    [] isdigit(CharAt(input, b.pos)) ->
         NumberToken(input, b.pos, ScanDigits(input, b.pos + 1, 1), line,
                     b.line)
    [] isalpha(CharAt(input, b.pos)) \/ CharAt(input, b.pos) = "_" ->
         WordToken(input, b.pos, ScanWord(input, b.pos + 1, 1), line, b.line)
    [] OTHER ->
         OperatorToken(input, b.pos + 1, CharAt(input, b.pos), line, b.line)

\* get_next_token(input, &pos) with the file-static current_line: the token,
\* the cursor and the line counter it leaves.  The token's line is the counter
\* on entry, before any whitespace is skipped.
get_next_token(input, pos, line) ==
  TokenAt(input, SkipBlanks(input, [pos |-> pos, line |-> line]), line)

(***************************************************************************)
(* Parser: parser.c.  A parser state s holds the file-static variables     *)
(* (source, position, current_token), the lexer's current_line, the heap   *)
(* of AST nodes, the diagnostics printed so far (out), the order of the    *)
(* observable steps (log), whether exit(1) was called (exited), and the    *)
(* value the function just returned (ret).  After exit(1) the process is   *)
(* gone: every function leaves an exited state as it is.  A function body  *)
(* is the composition of its statements, innermost first; advance, expect  *)
(* and the assignments to node fields leave ret alone, so ret carries the  *)
(* local variable node across them.                                        *)
(***************************************************************************)

Ret(s, v) == [s EXCEPT !.ret = v]

\* exit(1)
Exit(s) == [s EXCEPT !.exited = TRUE, !.log = Append(@, "exit")]

\* parse_error(error, token): one printed diagnostic.
parse_error(s, error, token) ==
  [s EXCEPT !.out = Append(@, [kind |-> error, line |-> token.line,
                               lexeme |-> token.lexeme]),
            !.log = Append(@, "diag")]

\* parse_error(error, current_token); exit(1);
Fatal(s, error) == Exit(parse_error(s, error, s.current_token))

\* current_token = r, the result of get_next_token(source, &position).
Fetched(s, r) ==
  [s EXCEPT !.current_token = r.token,
            !.position = r.pos,
            !.current_line = r.current_line,
            !.log = Append(@, "fetch")]

\* advance()
advance(s) ==
  IF s.exited THEN s
  ELSE Fetched(s, get_next_token(s.source, s.position, s.current_line))

\* The pointer the next malloc returns: the heap grows by one node per call.
NewNode(s) == Len(s.heap) + 1

\* create_node(type): a new node holding current_token, both children NULL.
create_node(s, type) ==
  IF s.exited THEN s
  ELSE [s EXCEPT !.heap = Append(@, [type |-> type, token |-> s.current_token,
                                     left |-> 0, right |-> 0]),
                 !.log = Append(@, "node"),
                 !.ret = NewNode(s)]

match(s, type) == s.current_token.type = type

\* A variant of expect that reports the unexpected token and goes on
\* parsing instead of exiting.
expect_without_exit(s, type) ==
  IF s.exited THEN s
  ELSE IF match(s, type) THEN advance(s)
  ELSE parse_error(s, "UNEXPECTED_TOKEN", s.current_token)

\* expect(type): advance past a matching token, else report and exit.
expect(s, type) ==
  IF s.exited THEN s
  ELSE IF match(s, type) THEN advance(s)
  ELSE Fatal(s, "UNEXPECTED_TOKEN")

\* if (!match(type)) { parse_error(error, current_token); exit(1); }
Require(s, type, error) ==
  IF s.exited THEN s
  ELSE IF ~match(s, type) THEN Fatal(s, error)
  ELSE s

\* node->token = t, node->left = v, node->right = v
SetToken(s, n, t) == IF s.exited THEN s ELSE [s EXCEPT !.heap[n].token = t]
SetLeft(s, n, v)  == IF s.exited THEN s ELSE [s EXCEPT !.heap[n].left = v]
SetRight(s, n, v) == IF s.exited THEN s ELSE [s EXCEPT !.heap[n].right = v]

\* node->token = current_token
SetTokenCurrent(s, node) == SetToken(s, node, s.current_token)

\* A call of parse_expression or parse_statement, the two functions declared
\* ahead of their definitions, made in state s.
RECURSIVE Call(_, _)

\* The two-token lookahead of parse_primary with next_token = r.token: the
\* cursor is restored, the lexer's line counter is not.
LookedAhead(s, r) ==
  [s EXCEPT !.current_line = r.current_line,
            !.log = Append(@, "fetch"),
            !.ret = r.token]

Lookahead(s) ==
  LookedAhead(s, get_next_token(s.source, s.position, s.current_line))

\* The end of parse_factorial, in the state d that parse_expression returned
\* in: node->left = <its result>; expect(TOKEN_RPAREN); return node;
parse_factorial_end(d, node) ==
  IF d.exited THEN d
  ELSE Ret(expect(SetLeft(d, node, d.ret), "RPAREN"), node)

\* parse_factorial is defined after the statements in parser.c.
parse_factorial(s) ==
  parse_factorial_end(
    Call("parse_expression",
         expect(advance(SetTokenCurrent(create_node(s, "FUNCALL"),
                                        NewNode(s))),
                "LPAREN")),
    NewNode(s))

\* A variant of the identifier branch that takes any identifier followed
\* by '(' for a call.
parse_primary_identifier_any_name(s) ==
  IF s.ret.type = "LPAREN"
  THEN parse_factorial(s)
  ELSE advance(create_node(s, "IDENTIFIER"))

\* The identifier branch of parse_primary after the lookahead, whose token
\* is s.ret.
parse_primary_identifier(s) ==
  IF s.ret.type = "LPAREN" /\ s.current_token.lexeme = "factorial"
  THEN parse_factorial(s)
  ELSE advance(create_node(s, "IDENTIFIER"))

parse_primary(s) ==
  IF s.exited THEN s
  ELSE CASE match(s, "NUMBER") -> advance(create_node(s, "NUMBER"))
         [] match(s, "IDENTIFIER") -> parse_primary_identifier(Lookahead(s))
         [] match(s, "LPAREN") ->
              expect(Call("parse_expression", advance(s)), "RPAREN")
         [] OTHER -> Fatal(s, "EXPECTED_PRIMARY")

\* The end of each precedence loop's body, in the state d the right operand
\* was returned in: new_node = create_node(AST_BINOP) with token op, left
\* node and right d.ret; node = new_node.
MkBinOp(d, op, node) ==
  IF d.exited THEN d
  ELSE SetRight(SetLeft(SetToken(create_node(d, "BINOP"), NewNode(d), op),
                        NewNode(d), node),
                NewNode(d), d.ret)

\* while (match(TOKEN_OPERATOR) && (lexeme[0] == '*' || lexeme[0] == '/')),
\* with node = s.ret.
RECURSIVE parse_factor_loop(_)
parse_factor_loop(s) ==
  IF s.exited THEN s
  ELSE IF match(s, "OPERATOR")
          /\ SubSeq(s.current_token.lexeme, 1, 1) \in {"*", "/"}
  THEN parse_factor_loop(
         MkBinOp(parse_primary(advance(s)), s.current_token, s.ret))
  ELSE s

parse_factor(s) == parse_factor_loop(parse_primary(s))

\* while (match(TOKEN_OPERATOR) && (lexeme[0] == '+' || lexeme[0] == '-'))
RECURSIVE parse_term_loop(_)
parse_term_loop(s) ==
  IF s.exited THEN s
  ELSE IF match(s, "OPERATOR")
          /\ SubSeq(s.current_token.lexeme, 1, 1) \in {"+", "-"}
  THEN parse_term_loop(
         MkBinOp(parse_factor(advance(s)), s.current_token, s.ret))
  ELSE s

parse_term(s) == parse_term_loop(parse_factor(s))

\* while (match(TOKEN_OPERATOR) && (lexeme is "<" or ">"))
RECURSIVE parse_comparison_loop(_)
parse_comparison_loop(s) ==
  IF s.exited THEN s
  ELSE IF match(s, "OPERATOR") /\ s.current_token.lexeme \in {"<", ">"}
  THEN parse_comparison_loop(
         MkBinOp(parse_term(advance(s)), s.current_token, s.ret))
  ELSE s

parse_comparison(s) == parse_comparison_loop(parse_term(s))

\* while (match(TOKEN_OPERATOR) && (lexeme is "==" or "!="))
RECURSIVE parse_equality_loop(_)
parse_equality_loop(s) ==
  IF s.exited THEN s
  ELSE IF match(s, "OPERATOR") /\ s.current_token.lexeme \in {"==", "!="}
  THEN parse_equality_loop(
         MkBinOp(parse_comparison(advance(s)), s.current_token, s.ret))
  ELSE s

parse_equality(s) == parse_equality_loop(parse_comparison(s))

parse_expression(s) == parse_equality(s)

parse_declaration(s) ==
  Ret(advance(Require(advance(SetTokenCurrent(
        Require(advance(create_node(s, "VARDECL")),
                "IDENTIFIER", "MISSING_IDENTIFIER"),
        NewNode(s))),
      "SEMICOLON", "MISSING_SEMICOLON")), NewNode(s))

\* The end of parse_assignment, in the state d that parse_expression
\* returned in: node->right = <its result>; the semicolon; return node;
parse_assignment_end(d, node) ==
  IF d.exited THEN d
  ELSE Ret(advance(Require(SetRight(d, node, d.ret),
                           "SEMICOLON", "MISSING_SEMICOLON")), node)

\* node is NewNode(s) and node->left the node allocated after it.
parse_assignment(s) ==
  parse_assignment_end(
    Call("parse_expression",
         advance(Require(advance(SetTokenCurrent(
           SetLeft(create_node(create_node(s, "ASSIGN"), "IDENTIFIER"),
                   NewNode(s), NewNode(s) + 1),
           NewNode(s) + 1)),
         "EQUALS", "MISSING_EQUALS"))),
    NewNode(s))

\* parse_if_statement and parse_while_statement once the condition is
\* parsed, in the state d that parse_expression returned in:
\* node->left = <its result>; expect(TOKEN_RPAREN);
parse_condition_end(d, node) ==
  IF d.exited THEN d
  ELSE expect(SetLeft(d, node, d.ret), "RPAREN")

\* ... and once the branch or body is parsed, in the state d that
\* parse_statement returned in: node->right = <its result>; return node;
parse_body_end(d, node) ==
  IF d.exited THEN d
  ELSE Ret(SetRight(d, node, d.ret), node)

parse_if_statement(s) ==
  parse_body_end(
    Call("parse_statement",
         parse_condition_end(
           Call("parse_expression",
                expect(advance(create_node(s, "IF")), "LPAREN")),
           NewNode(s))),
    NewNode(s))

parse_while_statement(s) ==
  parse_body_end(
    Call("parse_statement",
         parse_condition_end(
           Call("parse_expression",
                expect(advance(create_node(s, "WHILE")), "LPAREN")),
           NewNode(s))),
    NewNode(s))

\* parse_repeat_statement once the body is parsed, in the state d that
\* parse_statement returned in: node->left = <its result>; the until and
\* the parenthesis.
parse_repeat_until(d, node) ==
  IF d.exited THEN d
  ELSE expect(advance(Require(SetLeft(d, node, d.ret),
                              "UNTIL", "UNEXPECTED_TOKEN")), "LPAREN")

\* ... and once the condition is parsed, in the state d that
\* parse_expression returned in: node->right = <its result>;
\* expect(TOKEN_RPAREN); expect(TOKEN_SEMICOLON); return node;
parse_repeat_end(d, node) ==
  IF d.exited THEN d
  ELSE Ret(expect(expect(SetRight(d, node, d.ret), "RPAREN"), "SEMICOLON"),
           node)

parse_repeat_statement(s) ==
  parse_repeat_end(
    Call("parse_expression",
         parse_repeat_until(
           Call("parse_statement", advance(create_node(s, "REPEAT"))),
           NewNode(s))),
    NewNode(s))

\* The end of parse_print_statement, in the state d that parse_expression
\* returned in: node->left = <its result>; the semicolon; return node;
parse_print_end(d, node) ==
  IF d.exited THEN d
  ELSE Ret(advance(Require(SetLeft(d, node, d.ret),
                           "SEMICOLON", "MISSING_SEMICOLON")), node)

parse_print_statement(s) ==
  parse_print_end(
    Call("parse_expression", advance(create_node(s, "PRINT"))),
    NewNode(s))

\* The if/else in the loop of parse_block, in the state d that
\* parse_statement returned stmt = d.ret in: the first statement goes to
\* block_node->left, every later one to the right slot of the statement
\* before it (current->right = stmt).  current becomes stmt, which stays in
\* ret.
AttachToBlock(d, block_node, current) ==
  IF d.exited THEN d
  ELSE IF d.heap[block_node].left = 0
  THEN SetLeft(d, block_node, d.ret)
  ELSE SetRight(d, current, d.ret)

\* while (!match(TOKEN_RBRACE) && !match(TOKEN_EOF)), with current = s.ret.
RECURSIVE parse_block_loop(_, _)
parse_block_loop(s, block_node) ==
  IF s.exited \/ match(s, "RBRACE") \/ match(s, "EOF") THEN s
  ELSE parse_block_loop(
         AttachToBlock(Call("parse_statement", s), block_node, s.ret),
         block_node)

\* The end of parse_block, in the state d the loop was left in.
parse_block_end(d, block_node) ==
  IF d.exited THEN d
  ELSE Ret(expect(Require(d, "RBRACE", "MISSING_BLOCK"), "RBRACE"),
           block_node)

\* block_node is the node allocated first; current = NULL.
parse_block(s) ==
  parse_block_end(
    parse_block_loop(Ret(create_node(expect(s, "LBRACE"), "BLOCK"), 0),
                     NewNode(s)),
    NewNode(s))

parse_statement(s) ==
  CASE match(s, "INT")        -> parse_declaration(s)
    [] match(s, "IDENTIFIER") -> parse_assignment(s)
    [] match(s, "IF")         -> parse_if_statement(s)
    [] match(s, "WHILE")      -> parse_while_statement(s)
    [] match(s, "REPEAT")     -> parse_repeat_statement(s)
    [] match(s, "PRINT")      -> parse_print_statement(s)
    [] match(s, "LBRACE")     -> parse_block(s)
    [] OTHER -> Fatal(s, "SYNTAX_UNEXPECTED_TOKEN")

\* The state s is computed before the call is made; after exit(1) no call
\* is made.
Call(f, s) ==
  CASE s.exited -> s
    [] ~s.exited /\ f = "parse_expression" -> parse_expression(s)
    [] ~s.exited /\ f = "parse_statement"  -> parse_statement(s)

\* The rest of one iteration of the loop of parse_program, in the state d
\* that parse_statement returned in: current->left = <its result>; and,
\* unless the text ended, a new Program node in current->right, which
\* becomes current.  current is returned in ret.
parse_program_link(d, current) ==
  IF d.exited THEN d
  ELSE IF ~match(d, "EOF")
  THEN SetRight(create_node(SetLeft(d, current, d.ret), "PROGRAM"),
                current, NewNode(d))
  ELSE Ret(SetLeft(d, current, d.ret), current)

\* while (!match(TOKEN_EOF)), with current = s.ret.
RECURSIVE parse_program_loop(_)
parse_program_loop(s) ==
  IF s.exited \/ match(s, "EOF") THEN s
  ELSE parse_program_loop(
         parse_program_link(Call("parse_statement", s), s.ret))

\* return program; in the state d the loop was left in.
parse_program_end(d, program) == IF d.exited THEN d ELSE Ret(d, program)

parse_program(s) ==
  parse_program_end(parse_program_loop(create_node(s, "PROGRAM")), NewNode(s))

\* parser_init(input) on the process state s: source = input; position = 0;
\* advance().  current_line is not touched.
parser_init(s, text) == advance([s EXCEPT !.source = text, !.position = 0])

\* parse()
parse(s) == parse_program(s)

(***************************************************************************)
(* Semantic analyzer: semantic.c.  An analysis state a holds the AST heap  *)
(* (only read), the symbol list (table, head first), current_scope, the    *)
(* diagnostics printed (out), a snapshot of the table after each change    *)
(* (trace) and the value the function just returned (ret), which is also   *)
(* the local variable valid while a function accumulates it.  A Symbol     *)
(* pointer is an index into table, NULL is 0.                              *)
(***************************************************************************)

\* sizeof(symbol->name) - 1: strncpy keeps at most this many characters.
NameCap == 99

Snapshot(a, op) ==
  [a EXCEPT !.trace = Append(@, [op |-> op, table |-> a.table,
                                 current_scope |-> a.current_scope])]

\* init_symbol_table(): head = NULL, current_scope = 0.
init_symbol_table(heap) ==
  [heap |-> heap, table |-> << >>, current_scope |-> 0, out |-> << >>,
   trace |-> << [op |-> "init", table |-> << >>, current_scope |-> 0] >>,
   ret |-> 1]

\* A variant of add_symbol that appends the symbol at the end of the list.
add_symbol_at_tail(a, name, type, line) ==
  Snapshot([a EXCEPT !.table =
              @ \o << [name |-> SubSeq(name, 1, IF Len(name) < NameCap
                                                THEN Len(name) ELSE NameCap),
                       type |-> type,
                       scope_level |-> a.current_scope,
                       line_declared |-> line,
                       is_initialized |-> 0] >>],
           "add_symbol")

\* add_symbol(table, name, type, line): insert at the head of the list.
add_symbol(a, name, type, line) ==
  Snapshot([a EXCEPT !.table =
              << [name |-> SubSeq(name, 1, IF Len(name) < NameCap
                                           THEN Len(name) ELSE NameCap),
                  type |-> type,
                  scope_level |-> a.current_scope,
                  line_declared |-> line,
                  is_initialized |-> 0] >> \o @],
           "add_symbol")

\* The list walk of lookup_symbol from position i on.
RECURSIVE LookupFrom(_, _, _)
LookupFrom(symbols, name, i) ==
  IF i > Len(symbols) THEN 0
  ELSE IF symbols[i].name = name THEN i
  ELSE LookupFrom(symbols, name, i + 1)

lookup_symbol(a, name) == LookupFrom(a.table, name, 1)

RECURSIVE LookupCurrentFrom(_, _, _, _)
LookupCurrentFrom(symbols, scope, name, i) ==
  IF i > Len(symbols) THEN 0
  ELSE IF symbols[i].name = name /\ symbols[i].scope_level = scope THEN i
  ELSE LookupCurrentFrom(symbols, scope, name, i + 1)

lookup_symbol_current_scope(a, name) ==
  LookupCurrentFrom(a.table, a.current_scope, name, 1)

enter_scope(a) ==
  Snapshot([a EXCEPT !.current_scope = @ + 1], "enter_scope")

\* Unlink every symbol whose scope_level is scope from the list.
RemoveScope(symbols, scope) ==
  SelectSeq(symbols, LAMBDA y : y.scope_level /= scope)

remove_symbols_in_current_scope(a) ==
  [a EXCEPT !.table = RemoveScope(@, a.current_scope)]

\* A variant of exit_scope that lowers the counter and leaves the symbols
\* of the scope in the list.
exit_scope_keeping_symbols(a) ==
  Snapshot([a EXCEPT !.current_scope = @ - 1], "exit_scope")

exit_scope(a) ==
  Snapshot([remove_symbols_in_current_scope(a)
              EXCEPT !.current_scope = @ - 1], "exit_scope")

\* A variant of semantic_error that also records the error in the token of
\* the node being checked.
semantic_error_marking(a, error, name, line, node) ==
  [a EXCEPT !.out = Append(@, [kind |-> error, name |-> name, line |-> line,
                               node |-> node]),
            !.heap[node].token.error = error]

\* semantic_error(error, name, line); node is the AST node being checked.
semantic_error(a, error, name, line, node) ==
  [a EXCEPT !.out = Append(@, [kind |-> error, name |-> name, line |-> line,
                               node |-> node])]

\* A call f(node, table) of one of the check functions that semantic.h
\* declares.
RECURSIVE CallCheck(_, _, _)

\* valid &= f(child, table), with valid = a.ret: the call is made whatever
\* valid is, and a valid that is 0 stays 0.
AndCheck(a, f, child) ==
  IF a.ret = 0 THEN Ret(CallCheck(f, a, child), 0)
  ELSE CallCheck(f, a, child)

\* if (child) valid &= f(child, table);
IfAndCheck(a, f, child) ==
  CASE child = 0 -> a
    [] child /= 0 /\ a.ret = 0 -> Ret(CallCheck(f, a, child), 0)
    [] child /= 0 /\ a.ret /= 0 -> CallCheck(f, a, child)

\* node->type, for a node that may be NULL.
NodeType(a, node) == IF node = 0 THEN "NULL" ELSE a.heap[node].type

check_program(a, node) ==
  CASE NodeType(a, node) = "NULL" -> Ret(a, 1)
    [] NodeType(a, node) = "PROGRAM" ->
         IfAndCheck(IfAndCheck(Ret(a, 1), "check_statement", a.heap[node].left),
                    "check_program", a.heap[node].right)
    [] OTHER -> AndCheck(Ret(a, 1), "check_statement", node)

\* The ASTNode of parser.h has no else_branch member and the parser never
\* builds one: node->else_branch is taken as NULL.
else_branch(a, node) == 0

check_statement(a, node) ==
  CASE NodeType(a, node) = "NULL" -> Ret(a, 1)
    [] NodeType(a, node) = "VARDECL" ->
         CallCheck("check_declaration", a, node)
    [] NodeType(a, node) = "ASSIGN" ->
         CallCheck("check_assignment", a, node)
    [] NodeType(a, node) = "BLOCK" ->
         CallCheck("check_block", a, node)
    [] NodeType(a, node) = "IF" ->
         IfAndCheck(
           IfAndCheck(
             IfAndCheck(Ret(a, 1), "check_condition", a.heap[node].left),
             "check_statement", a.heap[node].right),
           "check_statement", else_branch(a, node))
    [] NodeType(a, node) = "WHILE" ->
         IfAndCheck(
           IfAndCheck(Ret(a, 1), "check_condition", a.heap[node].left),
           "check_statement", a.heap[node].right)
    [] NodeType(a, node) = "PRINT" ->
         IfAndCheck(Ret(a, 1), "check_expression", a.heap[node].left)
    [] OTHER -> AndCheck(Ret(a, 1), "check_expression", node)

\* A variant of check_declaration that adds the symbol without looking for
\* one of the same name in the current scope.
check_declaration_unchecked(a, node) ==
  IF a.heap[node].type /= "VARDECL" THEN Ret(a, 1)
  ELSE Ret(add_symbol(a, a.heap[node].token.lexeme, "INT",
                      a.heap[node].token.line), 1)

check_declaration(a, node) ==
  IF a.heap[node].type /= "VARDECL" THEN Ret(a, 1)
  ELSE IF lookup_symbol_current_scope(a, a.heap[node].token.lexeme) /= 0
  THEN Ret(semantic_error(a, "REDECLARED_VARIABLE", a.heap[node].token.lexeme,
                          a.heap[node].token.line, node), 0)
  ELSE Ret(add_symbol(a, a.heap[node].token.lexeme, "INT",
                      a.heap[node].token.line), 1)

\* A variant of MarkInitialized that leaves the flag as it is.
MarkInitialized_never(a, symbol) == a

\* symbol->is_initialized = 1
MarkInitialized(a, symbol) ==
  Snapshot([a EXCEPT !.table[symbol].is_initialized = 1], "initialize")

\* if (expr_valid) symbol->is_initialized = 1; return expr_valid; in the
\* state a that check_expression returned expr_valid in.
InitializeIfValid(a, symbol) ==
  IF a.ret /= 0 THEN Ret(MarkInitialized(a, symbol), a.ret) ELSE a

check_assignment(a, node) ==
  IF a.heap[node].type /= "ASSIGN" \/ a.heap[node].left = 0
     \/ a.heap[node].right = 0
  THEN Ret(a, 0)
  ELSE LET name == a.heap[a.heap[node].left].token.lexeme IN
       IF lookup_symbol(a, name) = 0
       THEN Ret(semantic_error(a, "UNDECLARED_VARIABLE", name,
                               a.heap[node].token.line, node), 0)
       ELSE InitializeIfValid(
              CallCheck("check_expression", a, a.heap[node].right),
              lookup_symbol(a, name))

\* A variant of check_identifier in which a read of an uninitialized
\* variable fails the check as well.
check_identifier_strict(a, node, symbol) ==
  IF symbol = 0
  THEN Ret(semantic_error(a, "UNDECLARED_VARIABLE", a.heap[node].token.lexeme,
                          a.heap[node].token.line, node), 0)
  ELSE IF a.table[symbol].is_initialized = 0
  THEN Ret(semantic_error(a, "UNINITIALIZED_VARIABLE",
                          a.heap[node].token.lexeme,
                          a.heap[node].token.line, node), 0)
  ELSE Ret(a, 1)

\* The identifier case of check_expression for the symbol found, or NULL.
check_identifier(a, node, symbol) ==
  IF symbol = 0
  THEN Ret(semantic_error(a, "UNDECLARED_VARIABLE", a.heap[node].token.lexeme,
                          a.heap[node].token.line, node), 0)
  ELSE IF a.table[symbol].is_initialized = 0
  THEN Ret(semantic_error(a, "UNINITIALIZED_VARIABLE",
                          a.heap[node].token.lexeme,
                          a.heap[node].token.line, node), 1)
  ELSE Ret(a, 1)

check_expression(a, node) ==
  CASE NodeType(a, node) = "NULL" -> Ret(a, 1)
    [] NodeType(a, node) = "NUMBER" -> Ret(a, 1)
    [] NodeType(a, node) = "IDENTIFIER" ->
         check_identifier(a, node, lookup_symbol(a, a.heap[node].token.lexeme))
    [] NodeType(a, node) = "BINOP" ->
         AndCheck(AndCheck(Ret(a, 1), "check_expression", a.heap[node].left),
                  "check_expression", a.heap[node].right)
    [] OTHER ->
         AndCheck(AndCheck(Ret(a, 1), "check_expression", a.heap[node].left),
                  "check_expression", a.heap[node].right)

check_block(a, node) ==
  IF node = 0 THEN Ret(a, 1)
  ELSE exit_scope(
         AndCheck(AndCheck(Ret(enter_scope(a), 1), "check_statement",
                           a.heap[node].left),
                  "check_block", a.heap[node].right))

check_condition(a, node) == CallCheck("check_expression", a, node)

CallCheck(f, a, node) ==
  CASE f = "check_program"     -> check_program(a, node)
    [] f = "check_statement"   -> check_statement(a, node)
    [] f = "check_declaration" -> check_declaration(a, node)
    [] f = "check_assignment"  -> check_assignment(a, node)
    [] f = "check_expression"  -> check_expression(a, node)
    [] f = "check_block"       -> check_block(a, node)
    [] f = "check_condition"   -> check_condition(a, node)

\* analyze_semantics(ast): the state when dump_symbol_table runs, with the
\* verdict in ret.
analyze_semantics(heap, ast) ==
  CallCheck("check_program", init_symbol_table(heap), ast)

(***************************************************************************)
(* Source texts the process is run on.                                     *)
(***************************************************************************)

\* Most binary operators in one generated expression.
MaxOps == 3
\* Most statements in a generated top-level sequence.
MaxTop == 3
\* Most statements in a generated block.
MaxBlock == 2

\* The binary operators of the documented grammar.
GrammarOps == {"*", "/", "+", "-", "<", ">", "==", "!="}

OperandNames == <<"a", "b", "c", "d", "e", "f", "g", "h">>

\* Unparenthesized expressions a op b op c ... with exactly k operators.
RECURSIVE Chains(_)
Chains(k) ==
  IF k = 0 THEN {OperandNames[1]}
  ELSE {c \o " " \o op \o " " \o OperandNames[k + 1] :
          c \in Chains(k - 1), op \in GrammarOps}

ChainTexts == UNION {Chains(k) : k \in 1..MaxOps}

\* One assignment statement per generated expression.
ExprPrograms == {"x = " \o e \o ";" : e \in ChainTexts}

SimpleStmts ==
  {"int x;", "int y;", "x = 1;", "x = y;", "print x;", "print x\n;"}

\* Sequences of at most n simple statements, each followed by a space.
RECURSIVE StmtSeqs(_)
StmtSeqs(n) ==
  IF n = 0 THEN {""}
  ELSE LET shorter == StmtSeqs(n - 1) IN
       shorter \cup {q \o s \o " " : q \in shorter, s \in SimpleStmts}

Blocks == {"{ " \o q \o "}" : q \in StmtSeqs(MaxBlock)}

Bodies == SimpleStmts \cup Blocks

CompoundStmts ==
  Blocks
    \cup {"if (x) " \o b : b \in Bodies}
    \cup {"while (x < 1) " \o b : b \in Bodies}
    \cup {"repeat " \o b \o " until (x);" : b \in Bodies}

\* Top-level sequences of simple statements, and one compound statement
\* with an optional declaration before it and an optional read after it.
StmtPrograms ==
  (StmtSeqs(MaxTop) \ {""})
    \cup {pre \o c \o post : pre \in {"", "int x; "}, c \in CompoundStmts,
                            post \in {"", " print x;"}}

\* Well-formed programs exercising parentheses, factorial, comments and
\* nesting.
SeedPrograms ==
  {"int x; x = (1 + 2) * 3; print x;",
   "int n;\nn = factorial(n - 1) / 2;\nprint factorial;",
   "int x; /* set */ x = 10;\nwhile (x > 0) { x = x - 1; print x; }",
   "int x; x = 0; repeat { x = x + 1; } until (x == 5); print x;",
   "int a; int b; a = 1; b = 2; if (a < b) { int c; c = a; a = b; b = c; }",
   "{ int x; { int y; y = 1; x = y; } print x; }"}

\* Repeat-until inside a block with statements after it, nested in another
\* statement, and with declarations and assignments in its body.
RepeatPrograms ==
  {"{ repeat x = 1; until (x); print x; }",
   "int x; if (x) { repeat x = 1; until (x < 2); x = 2; }",
   "int x; { repeat { x = 1; } until (x == 1); print x; }",
   "int x; while (x) repeat x = x + 1; until (x > 3);",
   "int x; repeat { int y; x = 1; } until (x); print x;",
   "repeat int y; until (y); y = 1;"}

\* Blocks whose first statement is itself a block.
NestedPrograms ==
  {"{ { int y; } print y; }",
   "{ { int x; } { int y; } }",
   "int x; { { int x; x = 1; } x = 2; int x; }",
   "int x; int x; { int x; } { int y; int y; }",
   "int x; { { int x; } { x = 1; } } print x;"}

WellFormedPrograms ==
  ExprPrograms \cup StmtPrograms \cup SeedPrograms \cup RepeatPrograms
    \cup NestedPrograms

(***************************************************************************)
(* The process: parser_init(input); parse(); analyze_semantics(ast).       *)
(***************************************************************************)

VARIABLES
  input,          \* the source text the process was started on
  pc,             \* "start", "inited", "parsed", "analyzed" or "exit"
  source,         \* parser.c: static const char *source
  position,       \* parser.c: static int position
  current_token,  \* parser.c: static Token current_token
  current_line,   \* lexer.c: static int current_line
  heap,           \* the AST nodes allocated so far
  out,            \* parse diagnostics printed
  log,            \* order of fetches, node creations, diagnostics and exit
  exited,         \* exit(1) was called
  ast,            \* the root parse() returned, 0 before
  table,          \* the symbol list when analysis ended
  current_scope,  \* table->current_scope when analysis ended
  sem_out,        \* semantic diagnostics printed
  trace,          \* the symbol table after each change during analysis
  result,         \* the verdict of analyze_semantics, 1 before
  calls           \* the calls of get_next_token a client made on its own

vars == <<input, pc, source, position, current_token, current_line, heap, out,
          log, exited, ast, table, current_scope, sem_out, trace, result,
          calls>>

semvars == <<table, current_scope, sem_out, trace, result>>

\* The parser state made of the current values of the variables.
State ==
  [source |-> source, position |-> position, current_token |-> current_token,
   current_line |-> current_line, heap |-> heap, out |-> out, log |-> log,
   exited |-> exited, ret |-> 0]

\* The variables take the values of parser state s.
Becomes(s) ==
  /\ source' = s.source
  /\ position' = s.position
  /\ current_token' = s.current_token
  /\ current_line' = s.current_line
  /\ heap' = s.heap
  /\ out' = s.out
  /\ log' = s.log
  /\ exited' = s.exited

\* Static storage before main runs: zeroed globals, current_line = 1.
InitWith(texts) ==
  /\ input \in texts
  /\ pc = "start"
  /\ source = ""
  /\ position = 0
  /\ current_token = MkToken("0", "", 0, "NONE")
  /\ current_line = 1
  /\ heap = << >>
  /\ out = << >>
  /\ log = << >>
  /\ exited = FALSE
  /\ ast = 0
  /\ table = << >>
  /\ current_scope = 0
  /\ sem_out = << >>
  /\ trace = << >>
  /\ result = 1
  /\ calls = << >>

ParserInit ==
  /\ pc = "start"
  /\ \E s \in {parser_init(State, input)} : Becomes(s)
  /\ pc' = "inited"
  /\ UNCHANGED <<input, ast, calls>>
  /\ UNCHANGED semvars

Parse ==
  /\ pc = "inited"
  /\ \E s \in {parse(State)} :
       /\ Becomes(s)
       /\ pc' = IF s.exited THEN "exit" ELSE "parsed"
       /\ ast' = IF s.exited THEN 0 ELSE s.ret
  /\ UNCHANGED <<input, calls>>
  /\ UNCHANGED semvars

AnalyzeSemantics ==
  /\ pc = "parsed"
  /\ \E a \in {analyze_semantics(heap, ast)} :
       /\ table' = a.table
       /\ current_scope' = a.current_scope
       /\ sem_out' = a.out
       /\ trace' = a.trace
       /\ result' = a.ret
       /\ heap' = a.heap
  /\ pc' = "analyzed"
  /\ UNCHANGED <<input, source, position, current_token, current_line, out,
                 log, exited, ast, calls>>

Next == ParserInit \/ Parse \/ AnalyzeSemantics

Init == InitWith(WellFormedPrograms)

Spec == Init /\ [][Next]_vars

\* The process has ended: by exit(1), or after the analysis.
Ended == pc \in {"exit", "analyzed"}

\* parse() has returned a tree.
Parsed == pc \in {"parsed", "analyzed"}

(***************************************************************************)
(* Expressions: the statement  x = a op b op c ...;  of ExprPrograms, read *)
(* word by word, and the shape of the tree built for its right-hand side.  *)
(***************************************************************************)

\* The words of a text whose words are separated by single spaces.
RECURSIVE WordsFrom(_, _, _)
WordsFrom(text, from, i) ==
  IF i > Len(text)
  THEN IF from > Len(text) THEN << >> ELSE << SubSeq(text, from, Len(text)) >>
  ELSE IF SubSeq(text, i, i) = " "
  THEN << SubSeq(text, from, i - 1) >> \o WordsFrom(text, i + 1, i + 1)
  ELSE WordsFrom(text, from, i + 1)

\* Operands and operators of the right-hand side of  x = e;  in order.
ChainWords(text) ==
  WordsFrom(SubSeq(text, 1, Len(text) - 1), 5, 5)

\* The precedence level of a binary operator: higher binds tighter.
Level(op) ==
  CASE op \in {"*", "/"}   -> 4
    [] op \in {"+", "-"}   -> 3
    [] op \in {"<", ">"}   -> 2
    [] op \in {"==", "!="} -> 1
    [] OTHER               -> 0

\* The lexemes of the tree rooted at node n, left to right.
RECURSIVE Flatten(_, _)
Flatten(h, n) ==
  IF n = 0 THEN << >>
  ELSE Flatten(h, h[n].left) \o << h[n].token.lexeme >>
         \o Flatten(h, h[n].right)

IsBinOp(h, n) == n /= 0 /\ h[n].type = "BINOP"

\* The right-hand side of the only statement of a parsed ExprPrograms text.
ExprRoot == heap[heap[ast].left].right

\* The tree holds every operand and operator of the text, in its order.
TreeSpellsText ==
  /\ ast /= 0
  /\ heap[ast].left /= 0
  /\ heap[heap[ast].left].type = "ASSIGN"
  /\ Flatten(heap, ExprRoot) = ChainWords(input)

\* C1: every well-formed program of the documented grammar is parsed and
\* analysed to the end; the process never takes the fatal-error exit.
C1_WellFormedNeverExits == pc /= "exit" /\ ~exited

\* C2: operator precedence.  For every unparenthesized expression over the
\* documented operators a tree is built that spells the expression, and in
\* it no operator node has a child operator node that binds less tightly:
\* the higher-binding operator is always the inner node.
C2_PrecedenceNesting ==
  (Ended /\ input \in ExprPrograms) =>
    /\ Parsed
    /\ TreeSpellsText
    /\ \A n \in 1..Len(heap) :
         IsBinOp(heap, n) =>
           /\ IsBinOp(heap, heap[n].left) =>
                Level(heap[heap[n].left].token.lexeme)
                  >= Level(heap[n].token.lexeme)
           /\ IsBinOp(heap, heap[n].right) =>
                Level(heap[heap[n].right].token.lexeme)
                  >= Level(heap[n].token.lexeme)

\* C3: left associativity.  For every unparenthesized chain a tree is built
\* that spells the chain, and in it the right operand of an operator node is
\* never an operator node of the same level: equal-level operators fold left.
C3_LeftAssociative ==
  (Ended /\ input \in ExprPrograms) =>
    /\ Parsed
    /\ TreeSpellsText
    /\ \A n \in 1..Len(heap) :
         (IsBinOp(heap, n) /\ IsBinOp(heap, heap[n].right)) =>
           Level(heap[heap[n].right].token.lexeme)
             /= Level(heap[n].token.lexeme)

(***************************************************************************)
(* What a program text declares, assigns and reads, taken from its tokens  *)
(* with the scoping rule of the language: a block opens a scope, a         *)
(* declaration is visible from its place to the end of its scope.  The     *)
(* analyzer's verdict and diagnostics are compared with these facts.       *)
(***************************************************************************)

\* Reading the tokens of a text in order, each with the cursor it starts
\* at: the tokens read so far, the lexer's cursor and line counter, and
\* whether the end of the text was met.
NoTokens == [toks |-> << >>, pos |-> 0, line |-> 1, done |-> FALSE]

\* The reading t with the result r of one more get_next_token.
TokenAdded(t, r) ==
  IF r.token.type = "EOF" THEN [t EXCEPT !.done = TRUE]
  ELSE [toks |-> Append(t.toks, [type |-> r.token.type,
                                 lexeme |-> r.token.lexeme,
                                 start |-> r.pos - Len(r.token.lexeme)]),
        pos |-> r.pos, line |-> r.current_line, done |-> FALSE]

\* At most n more tokens read: the first half of them, then the rest.
RECURSIVE ReadTokens(_, _, _)
ReadTokens(text, t, n) ==
  CASE t.done \/ n = 0 -> t
    [] ~t.done /\ n = 1 ->
         TokenAdded(t, get_next_token(text, t.pos, t.line))
    [] ~t.done /\ n > 1 ->
         ReadTokens(text, ReadTokens(text, t, n \div 2), n - n \div 2)

\* A text has fewer tokens than characters plus one.
Tokens(text) == ReadTokens(text, NoTokens, Len(text) + 1).toks

\* The line of the character at cursor p: one more than the newlines
\* before it.
LineAt(text, p) ==
  1 + Cardinality({i \in 1..p : SubSeq(text, i, i) = "\n"})

\* The names visible in a sequence of scopes, outermost first.
Visible(scopes) == UNION {scopes[i] : i \in 1..Len(scopes)}

\* Nothing read yet: one open scope, the outermost.  seen is the number
\* of tokens read.
NoFacts ==
  [seen |-> 0, scopes |-> << {} >>, undeclared |-> << >>,
   redeclared |-> << >>, pending |-> {}, assigned |-> {}, early |-> << >>,
   late |-> {}]

\* int name; at the given line
Declares(f, name, line) ==
  IF name \in f.scopes[Len(f.scopes)]
  THEN [f EXCEPT !.redeclared = Append(@, [name |-> name, line |-> line])]
  ELSE [f EXCEPT !.scopes[Len(f.scopes)] = @ \cup {name}]

\* name = ...  The assignment is complete at its semicolon.
Assigns(f, name) ==
  IF name \in Visible(f.scopes)
  THEN [f EXCEPT !.pending = @ \cup {name}]
  ELSE [f EXCEPT !.undeclared = Append(@, name)]

\* name read in an expression
Reads(f, name) ==
  IF name \notin Visible(f.scopes)
  THEN [f EXCEPT !.undeclared = Append(@, name)]
  ELSE IF name \in f.assigned THEN [f EXCEPT !.late = @ \cup {name}]
  ELSE [f EXCEPT !.early = Append(@, name)]

\* What token i of toks adds to the facts f before it.
ScanToken(text, toks, i, f) ==
  CASE toks[i].type = "LBRACE" -> [f EXCEPT !.scopes = Append(@, {})]
    [] toks[i].type = "RBRACE" ->
         IF Len(f.scopes) > 1
         THEN [f EXCEPT !.scopes = SubSeq(@, 1, Len(@) - 1)]
         ELSE f
    [] toks[i].type = "SEMICOLON" ->
         [f EXCEPT !.assigned = @ \cup f.pending, !.pending = {}]
    [] toks[i].type = "IDENTIFIER" ->
         IF i > 1 /\ toks[i - 1].type = "INT"
         THEN Declares(f, toks[i].lexeme, LineAt(text, toks[i].start))
         ELSE IF i < Len(toks) /\ toks[i + 1].type = "EQUALS"
         THEN Assigns(f, toks[i].lexeme)
         ELSE IF i < Len(toks) /\ toks[i + 1].type = "LPAREN"
                 /\ toks[i].lexeme = "factorial"
         THEN f
         ELSE Reads(f, toks[i].lexeme)
    [] OTHER -> f

\* The facts after one more token.
ScanStep(text, toks, f) ==
  [ScanToken(text, toks, f.seen + 1, f) EXCEPT !.seen = f.seen + 1]

\* The facts after the first n tokens, from facts f after fewer tokens: the
\* first half of the tokens left, then the rest.
RECURSIVE Scan(_, _, _, _)
Scan(text, toks, f, n) ==
  CASE f.seen >= n -> f
    [] f.seen + 1 = n -> ScanStep(text, toks, f)
    [] f.seen + 1 < n ->
         Scan(text, toks, Scan(text, toks, f, (f.seen + n) \div 2), n)

FactsOf(text, toks) == Scan(text, toks, NoFacts, Len(toks))

Facts(text) == FactsOf(text, Tokens(text))

\* The diagnostics of one kind that the analyzer printed.
Diagnostics(kind) == SelectSeq(sem_out, LAMBDA d : d.kind = kind)

\* The analyzer printed a diagnostic of this kind for this name.
Diagnosed(kind, name) ==
  \E k \in 1..Len(sem_out) : sem_out[k].kind = kind /\ sem_out[k].name = name

\* C4: undeclared use.  Whenever the program assigns to or reads a name
\* with no visible declaration, at top level, anywhere in a block or in the
\* body of if, while or repeat, the analysis returns false and prints an
\* undeclared-variable diagnostic for that name.
C4_UndeclaredUseReported ==
  pc = "analyzed" =>
    LET f == Facts(input) IN
    \A k \in 1..Len(f.undeclared) :
      result = 0 /\ Diagnosed("UNDECLARED_VARIABLE", f.undeclared[k])

\* C5: redeclaration in the same scope.  Whenever the program declares a
\* name twice in one scope, the analysis returns false and prints a
\* redeclared-variable diagnostic carrying the line of the second declaration.
C5_RedeclarationReported ==
  pc = "analyzed" =>
    LET f == Facts(input) IN
    \A k \in 1..Len(f.redeclared) :
      /\ result = 0
      /\ \E j \in 1..Len(sem_out) :
           /\ sem_out[j].kind = "REDECLARED_VARIABLE"
           /\ sem_out[j].name = f.redeclared[k].name
           /\ sem_out[j].line = f.redeclared[k].line

\* C6: no check is skipped after a failure.  Every use of an undeclared name
\* and every redeclaration in the program has a diagnostic of its own: as
\* many undeclared-variable diagnostics as undeclared uses, as many
\* redeclared-variable diagnostics as redeclarations.
C6_EveryViolationReported ==
  pc = "analyzed" =>
    LET f == Facts(input) IN
    /\ Len(Diagnostics("UNDECLARED_VARIABLE")) = Len(f.undeclared)
    /\ Len(Diagnostics("REDECLARED_VARIABLE")) = Len(f.redeclared)

\* The diagnostics of one kind that the analyzer printed for one name.
DiagnosticsFor(kind, name) ==
  SelectSeq(sem_out, LAMBDA d : d.kind = kind /\ d.name = name)

\* C7: the verdict is false exactly when an undeclared-variable or a
\* redeclared-variable diagnostic was printed; uninitialized-variable
\* diagnostics, however many, do not make it false.
C7_VerdictIffViolation ==
  pc = "analyzed" =>
    /\ result \in {0, 1}
    /\ result = 0 <=>
         \E k \in 1..Len(sem_out) :
           sem_out[k].kind \in {"UNDECLARED_VARIABLE", "REDECLARED_VARIABLE"}

\* An analysis that printed several uninitialized-variable diagnostics,
\* nothing else, and returned true.
C7_Witness ==
  /\ pc = "analyzed"
  /\ result = 1
  /\ Len(Diagnostics("UNINITIALIZED_VARIABLE")) >= 2
  /\ Len(Diagnostics("UNINITIALIZED_VARIABLE")) = Len(sem_out)

\* A program of simple statements only: every statement is at top level.
TopLevelOnly(toks) ==
  \A i \in 1..Len(toks) :
    toks[i].type \notin {"LBRACE", "RBRACE", "IF", "WHILE", "REPEAT", "ERROR"}

\* The program is a top-level program without undeclared uses and
\* redeclarations in which name is declared, then assigned, then read.
DeclaredAssignedRead(text, name) ==
  /\ TopLevelOnly(Tokens(text))
  /\ Facts(text).undeclared = << >>
  /\ Facts(text).redeclared = << >>
  /\ name \in Facts(text).late

\* C8: declaration, then assignment, then use.  For a top-level program
\* that declares a name, assigns it an expression without undeclared
\* identifiers and then reads it, the analysis returns true, the symbol ends
\* in the table with is_initialized set, and no uninitialized-variable
\* diagnostic is printed for a read after the assignment: there are at most
\* as many as reads of the name before the assignment was complete.
C8_DeclareAssignRead ==
  pc = "analyzed" =>
    \A name \in Facts(input).late :
      DeclaredAssignedRead(input, name) =>
        /\ result = 1
        /\ \E k \in 1..Len(table) :
             table[k].name = name /\ table[k].is_initialized = 1
        /\ Len(DiagnosticsFor("UNINITIALIZED_VARIABLE", name))
             <= Len(SelectSeq(Facts(input).early, LAMBDA r : r = name))

\* The analysis of a program that declares x, assigns it and reads it.
C8_Witness ==
  /\ pc = "analyzed"
  /\ DeclaredAssignedRead(input, "x")
  /\ result = 1

\* An outer x, a block that declares its own x and assigns it, and a read
\* of x after the block.
ShadowPrograms == {"int x; { int x; x = 1; } print x;"}

\* The table holds a symbol of this name, scope level and flag.
HasSymbol(symbols, name, level, flag) ==
  \E k \in 1..Len(symbols) :
    /\ symbols[k].name = name
    /\ symbols[k].scope_level = level
    /\ symbols[k].is_initialized = flag

\* C9: shadowing.  The inner declaration adds a second symbol x one level
\* deeper; the assignment in the block sets is_initialized of the inner
\* symbol and not of the outer one; the inner symbol is gone when the block
\* is left; the read after the block is diagnosed as uninitialized and the
\* verdict is true.
C9_Shadowing ==
  (pc = "analyzed" /\ input \in ShadowPrograms) =>
    /\ \E i \in 1..Len(trace) :
         /\ trace[i].op = "add_symbol"
         /\ HasSymbol(trace[i].table, "x", 1, 0)
         /\ HasSymbol(trace[i].table, "x", 0, 0)
    /\ \E i \in 1..Len(trace) :
         /\ trace[i].op = "initialize"
         /\ HasSymbol(trace[i].table, "x", 1, 1)
         /\ HasSymbol(trace[i].table, "x", 0, 0)
    /\ Len(table) = 1
    /\ HasSymbol(table, "x", 0, 0)
    /\ Diagnosed("UNINITIALIZED_VARIABLE", "x")
    /\ result = 1

(***************************************************************************)
(* Programs with syntax errors: the texts of SeedPrograms with one token   *)
(* left out or cut off after some token, the seeds themselves and a few    *)
(* texts with a character the lexer rejects.                               *)
(***************************************************************************)

Lexemes(text) == [i \in 1..Len(Tokens(text)) |-> Tokens(text)[i].lexeme]

\* Words lo..hi of ws with single spaces between them.
RECURSIVE Join(_, _, _)
Join(ws, lo, hi) ==
  CASE lo > hi -> ""
    [] lo = hi -> ws[lo]
    [] lo < hi ->
         Join(ws, lo, (lo + hi) \div 2) \o " "
           \o Join(ws, (lo + hi) \div 2 + 1, hi)

JoinWords(ws) == Join(ws, 1, Len(ws))

\* The texts made of the lexemes lex with one left out, or cut short.
DamagedFrom(lex) ==
  {JoinWords(SubSeq(lex, 1, i - 1) \o SubSeq(lex, i + 1, Len(lex))) :
     i \in 1..Len(lex)}
    \cup {JoinWords(SubSeq(lex, 1, k)) : k \in 1..(Len(lex) - 1)}

Damaged(text) == DamagedFrom(Lexemes(text))

\* Texts with one grammar violation each, and the category that names the
\* expectation the text violates.
ViolationCases ==
  {[text |-> "int ;",                    kind |-> "MISSING_IDENTIFIER"],
   [text |-> "int 1;",                   kind |-> "MISSING_IDENTIFIER"],
   [text |-> "int x",                    kind |-> "MISSING_SEMICOLON"],
   [text |-> "int x x = 1;",             kind |-> "MISSING_SEMICOLON"],
   [text |-> "x = 1",                    kind |-> "MISSING_SEMICOLON"],
   [text |-> "x = 1 print x;",           kind |-> "MISSING_SEMICOLON"],
   [text |-> "print x",                  kind |-> "MISSING_SEMICOLON"],
   [text |-> "print x }",                kind |-> "MISSING_SEMICOLON"],
   [text |-> "repeat x = 1; until (x)",  kind |-> "MISSING_SEMICOLON"],
   [text |-> "x 1;",                     kind |-> "MISSING_EQUALS"],
   [text |-> "x ;",                      kind |-> "MISSING_EQUALS"],
   [text |-> "if x) x = 1;",             kind |-> "MISSING_LPAREN"],
   [text |-> "while x) x = 1;",          kind |-> "MISSING_LPAREN"],
   [text |-> "repeat x = 1; until x);",  kind |-> "MISSING_LPAREN"],
   [text |-> "if (x x = 1;",             kind |-> "MISSING_RPAREN"],
   [text |-> "while (x x = 1;",          kind |-> "MISSING_RPAREN"],
   [text |-> "repeat x = 1; until (x;",  kind |-> "MISSING_RPAREN"],
   [text |-> "x = factorial(1;",         kind |-> "MISSING_RPAREN"],
   [text |-> "x = (1 + 2;",              kind |-> "MISSING_RPAREN"],
   [text |-> "{ int x;",                 kind |-> "MISSING_BLOCK"],
   [text |-> "{",                        kind |-> "MISSING_BLOCK"],
   [text |-> "if (x) { x = 1;",          kind |-> "MISSING_BLOCK"]}

ViolationPrograms == {c.text : c \in ViolationCases}

ErrorPrograms ==
  UNION {Damaged(p) : p \in SeedPrograms}
    \cup SeedPrograms
    \cup {"x = 1 != 2;", "int x; x = 1 @ 2;", "int x; $", "int x; print x }"}
    \cup ViolationPrograms

InitErr == InitWith(ErrorPrograms)

SpecErr == InitErr /\ [][Next]_vars

\* C10: a parse error is fatal and reported once.  A diagnostic in the
\* parser's record of steps is the last step before exit(1): after it no
\* token is fetched, no diagnostic is printed and no node is created, and
\* parse() returns no tree.
C10_ParseErrorFatalOnce ==
  /\ \A i \in 1..Len(log) :
       log[i] = "diag" =>
         /\ i = Len(log) - 1
         /\ log[Len(log)] = "exit"
  /\ out /= << >> =>
       /\ Len(out) = 1
       /\ exited
       /\ pc = "exit"
       /\ ast = 0
  /\ exited => (Len(out) = 1 /\ pc = "exit")

\* A parse that built part of the tree, then printed its one diagnostic and
\* exited.
C10_Witness ==
  /\ pc = "exit"
  /\ Len(out) = 1
  /\ Len(heap) > 2
  /\ log[Len(log) - 1] = "diag"

(***************************************************************************)
(* The lines that tokens carry.                                            *)
(***************************************************************************)

\* The lines on which the text has a token of this type and lexeme: for
\* each such token, the line of its first character.
LinesOf(text, type, lexeme) ==
  {LineAt(text, Tokens(text)[i].start) :
     i \in {j \in 1..Len(Tokens(text)) :
              /\ Tokens(text)[j].type = type
              /\ Tokens(text)[j].lexeme = lexeme}}

\* C11: every token carries its source line.  In the tree of the first
\* parse of a process, the token of every node (other than end-of-file) has
\* as its line the line of an occurrence of that token in the text: 1 plus
\* the number of newlines before the token's first character.
C11_TokenLines ==
  Parsed =>
    \A n \in 1..Len(heap) :
      heap[n].token.type /= "EOF" =>
        heap[n].token.line
          \in LinesOf(input, heap[n].token.type, heap[n].token.lexeme)

\* C12: each grammar violation is reported under the category that names
\* the violated expectation.  The parse of a text of ViolationCases ends in
\* exit(1) with one diagnostic, and the diagnostic has the category of the
\* case: missing-identifier, missing-semicolon, missing-equals,
\* missing-l-paren, missing-r-paren or missing-block.
C12_ViolationCategory ==
  \A c \in ViolationCases :
    (input = c.text /\ pc \notin {"start", "inited"}) =>
      /\ pc = "exit"
      /\ Len(out) = 1
      /\ out[1].kind = c.kind

(***************************************************************************)
(* The lexer on its own: a client calls get_next_token(input, &position)   *)
(* on a text, and between calls may set its cursor to any value inside the *)
(* text, as parse_primary does when it restores a saved cursor.  The calls *)
(* made are kept in calls: the cursor before and after, the token          *)
(* returned and the line counter the call left.                            *)
(***************************************************************************)

\* Most calls of get_next_token in one run of the client.
MaxCalls == 3

\* The ten operator lexemes of the language.
OperatorLexemes == {"+", "-", "*", "/", "<", ">", "<=", ">=", "==", "!="}

\* One operator between two operands: the operator starts at cursor 2.
OperatorText(op) == "a " \o op \o " b"

OperatorTexts == {OperatorText(op) : op \in OperatorLexemes}

\* Texts with blanks, newlines and comments, closed and unterminated, in
\* front of tokens and at the end of the text.
BlankTexts ==
  {"", " ", "\n", " \t\n", "x", "x\n", "\nx", "x\ny", "1\n\n", "12 ab_1",
   "/**/", "/* c */", "/* c", "x /* c", "/*", "/*\n", "x/*\n*/",
   "a /*\n*/ b",
   "x /", "/ *", "a<=b", "a==b", "= =", "@", "if(x)"}

LexTexts == OperatorTexts \cup BlankTexts

\* A fresh process: the lexer's current_line is 1, the cursor 0.
InitLex == InitWith(LexTexts)

\* Token t = get_next_token(input, &position);
LexCall ==
  /\ pc = "start"
  /\ Len(calls) < MaxCalls
  /\ \E r \in {get_next_token(input, position, current_line)} :
       /\ current_token' = r.token
       /\ position' = r.pos
       /\ current_line' = r.current_line
       /\ calls' = Append(calls, [from |-> position, to |-> r.pos,
                                  token |-> r.token,
                                  current_line |-> r.current_line])
  /\ UNCHANGED <<input, pc, source, heap, out, log, exited, ast>>
  /\ UNCHANGED semvars

\* position = <a cursor inside the text>;
LexSeek ==
  /\ pc = "start"
  /\ Len(calls) < MaxCalls
  /\ \E p \in 0..Len(input) :
       /\ p /= position
       /\ position' = p
  /\ UNCHANGED <<input, pc, source, current_token, current_line, heap, out,
                 log, exited, ast, calls>>
  /\ UNCHANGED semvars

NextLex == LexCall \/ LexSeek

SpecLex == InitLex /\ [][NextLex]_vars

\* C13: get_next_token is pure in (source, cursor).  Any two calls made
\* with the same cursor value return tokens equal in kind, text, line and
\* error field and leave the cursor at the same value, whatever calls were
\* made before or between them.
C13_SameCursorSameToken ==
  \A i, j \in 1..Len(calls) :
    calls[i].from = calls[j].from =>
      /\ calls[i].token = calls[j].token
      /\ calls[i].to = calls[j].to

(***************************************************************************)
(* One process that parses its text twice, as the main of parser.c parses  *)
(* two texts one after the other: parser_init(input); parse();             *)
(* parser_init(input); parse().  The nodes of the first tree stay in the   *)
(* heap, so that the second tree can be compared with it.                  *)
(***************************************************************************)

\* The parser state of a process that has just started.
FreshState ==
  [source |-> "", position |-> 0, current_token |-> MkToken("0", "", 0, "NONE"),
   current_line |-> 1, heap |-> << >>, out |-> << >>, log |-> << >>,
   exited |-> FALSE, ret |-> 0]

\* The second parser_init(input), after the first parse() returned.
ParserInitAgain ==
  /\ pc = "parsed"
  /\ \E s \in {parser_init(State, input)} : Becomes(s)
  /\ pc' = "inited again"
  /\ UNCHANGED <<input, ast, calls>>
  /\ UNCHANGED semvars

\* The second parse().
ParseAgain ==
  /\ pc = "inited again"
  /\ \E s \in {parse(State)} :
       /\ Becomes(s)
       /\ pc' = IF s.exited THEN "exit" ELSE "parsed again"
       /\ ast' = IF s.exited THEN 0 ELSE s.ret
  /\ UNCHANGED <<input, calls>>
  /\ UNCHANGED semvars

NextTwice == ParserInit \/ Parse \/ ParserInitAgain \/ ParseAgain

SpecTwice == Init /\ [][NextTwice]_vars

\* C14: parser_init resets the cursor and the line-tracking state.  After
\* the second parser_init the cursor, the current token and the line
\* counter are those of a fresh process after its parser_init, and the
\* second parse builds a tree whose nodes carry, one by one, the same
\* tokens as the nodes of the first, line numbers included.
C14_ReparseSameTokens ==
  /\ pc = "inited again" =>
       /\ position = parser_init(FreshState, input).position
       /\ current_token = parser_init(FreshState, input).current_token
       /\ current_line = parser_init(FreshState, input).current_line
  /\ pc = "parsed again" =>
       /\ Len(heap) = 2 * (Len(heap) \div 2)
       /\ \A i \in 1..(Len(heap) \div 2) :
            heap[Len(heap) \div 2 + i].token = heap[i].token

\* Only whitespace and block comments lie between cursor p and the end of
\* the text; a comment that is not closed runs to the end of the text.
RECURSIVE OnlyBlanks(_, _)
OnlyBlanks(text, p) ==
  CASE p >= Len(text) -> TRUE
    [] p < Len(text) /\ SubSeq(text, p + 1, p + 1) \in {" ", "\n", "\t"} ->
         OnlyBlanks(text, p + 1)
    [] p + 1 < Len(text) /\ SubSeq(text, p + 1, p + 2) = "/*" ->
         \/ \A q \in (p + 2)..(Len(text) - 2) : SubSeq(text, q + 1, q + 2) /= "*/"
         \/ \E q \in (p + 2)..(Len(text) - 2) :
              /\ SubSeq(text, q + 1, q + 2) = "*/"
              /\ \A k \in (p + 2)..(q - 1) : SubSeq(text, k + 1, k + 2) /= "*/"
              /\ OnlyBlanks(text, q + 2)
    [] OTHER -> FALSE

\* C15: end of input.  A call of get_next_token that has only whitespace
\* and comments between its cursor and the end of the text returns a token
\* of kind end-of-file and leaves the line counter at 0; the cursor it
\* leaves has again only blanks after it, and every call made at the same
\* cursor returns end-of-file as well.
C15_EndOfFile ==
  \A i \in 1..Len(calls) :
    OnlyBlanks(input, calls[i].from) =>
      /\ calls[i].token.type = "EOF"
      /\ calls[i].current_line = 0
      /\ (i = Len(calls) => current_line = 0)
      /\ OnlyBlanks(input, calls[i].to)
      /\ \A j \in 1..Len(calls) :
           calls[j].from = calls[i].from => calls[j].token.type = "EOF"

\* Two calls at the same cursor, in front of blanks with a newline among
\* them, both returned end-of-file, and the line counter is 0.
C15_Witness ==
  /\ \E i, j \in 1..Len(calls) :
       /\ i < j
       /\ calls[i].from = calls[j].from
       /\ calls[i].from < Len(input)
       /\ calls[i].token.type = "EOF"
       /\ calls[j].token.type = "EOF"
       /\ \E q \in calls[i].from..(Len(input) - 1) :
            SubSeq(input, q + 1, q + 1) = "\n"
  /\ current_line = 0

\* C16: operators.  In the text "a <op> b", for each of the ten operator
\* lexemes, the call of get_next_token made after the operand a (at the
\* blank before the operator, or at the operator itself) returns a single
\* token of kind operator whose text is the whole lexeme, with no error
\* flag, and leaves the cursor just past the lexeme.
C16_OperatorLexemes ==
  \A op \in OperatorLexemes :
    input = OperatorText(op) =>
      \A i \in 1..Len(calls) :
        calls[i].from \in {1, 2} =>
          /\ calls[i].token.type = "OPERATOR"
          /\ calls[i].token.lexeme = op
          /\ calls[i].token.error = "NONE"
          /\ calls[i].to = 2 + Len(op)

\* C17: lexer progress.  Every call of get_next_token, from any cursor
\* inside the text, leaves the cursor inside the text and, unless it
\* returns end-of-file, strictly greater than before; and from every
\* cursor p, reading token after token meets end-of-file within
\* Len(input) - p + 1 calls.
C17_LexerProgress ==
  /\ \A i \in 1..Len(calls) :
       /\ calls[i].from <= calls[i].to
       /\ calls[i].to <= Len(input)
       /\ calls[i].token.type /= "EOF" => calls[i].to > calls[i].from
  /\ \A p \in 0..Len(input) :
       ReadTokens(input, [NoTokens EXCEPT !.pos = p], Len(input) - p + 1).done

\* A token was read, and the next call ran through a block comment that is
\* never closed and returned end-of-file with the cursor at the end of the
\* text.
C17_Witness ==
  /\ Len(calls) = 2
  /\ calls[1].token.type = "IDENTIFIER"
  /\ calls[2].from = calls[1].to
  /\ calls[2].token.type = "EOF"
  /\ calls[2].to = Len(input)
  /\ calls[2].to > calls[2].from
  /\ \E q \in 0..(Len(input) - 2) : SubSeq(input, q + 1, q + 2) = "/*"
  /\ \A q \in 0..(Len(input) - 2) : SubSeq(input, q + 1, q + 2) /= "*/"

\* C18: the analysis reads the tree and does not change it.  The step that
\* runs analyze_semantics leaves every node of the heap with the kind,
\* token and children it had, and leaves the root where it was; the symbol
\* table, the diagnostics and the verdict are what it sets.
C18_AnalysisReadsOnly ==
  [][pc' = "analyzed" =>
       /\ Len(heap') = Len(heap)
       /\ \A n \in 1..Len(heap) :
            /\ heap'[n].type = heap[n].type
            /\ heap'[n].token = heap[n].token
            /\ heap'[n].left = heap[n].left
            /\ heap'[n].right = heap[n].right
       /\ ast' = ast]_vars

\* The analysis of a tree with a block in it ended with diagnostics
\* printed and symbols left in the table.
C18_Witness ==
  /\ pc = "analyzed"
  /\ sem_out /= << >>
  /\ table /= << >>
  /\ \E n \in 1..Len(heap) : heap[n].type = "BLOCK"

(***************************************************************************)
(* The shape of the tree parse() returns.                                  *)
(***************************************************************************)

StatementKinds ==
  {"VARDECL", "ASSIGN", "IF", "WHILE", "REPEAT", "PRINT", "BLOCK"}

ExpressionKinds == {"NUMBER", "IDENTIFIER", "BINOP", "FUNCALL"}

\* Node n of heap h is a link of a sequence: a statement in the first slot
\* (none only if the sequence is empty) and, in the second slot, nothing or
\* a node of the same kind.
SequenceLink(h, n) ==
  /\ h[n].left = 0 \/ h[h[n].left].type \in StatementKinds
  /\ h[n].left = 0 => h[n].right = 0
  /\ h[n].right = 0 \/ h[h[n].right].type = h[n].type

\* The second slot of statement n holds what the statement itself puts
\* there, and no statement that follows it: nothing for a declaration and
\* a print, the assigned expression, the condition of repeat-until.
OwnSecondSlot(h, n) ==
  CASE h[n].type \in {"VARDECL", "PRINT"} -> h[n].right = 0
    [] h[n].type \in {"ASSIGN", "REPEAT"} ->
         h[n].right /= 0 /\ h[h[n].right].type \in ExpressionKinds
    [] OTHER -> TRUE

\* C19: sequences are right-leaning lists.  In the tree that parse()
\* returned, every Program node and every Block node holds one statement in
\* its first slot and nothing or a node of its own kind in its second, and
\* no statement is chained through a child slot of the statement before
\* it.
C19_RightLeaningLists ==
  Parsed =>
    \A n \in 1..Len(heap) :
      /\ heap[n].type \in {"PROGRAM", "BLOCK"} => SequenceLink(heap, n)
      /\ OwnSecondSlot(heap, n)

\* The nodes of heap h that have node c as a child, each counted once per
\* slot that holds c.
ParentSlots(h, c) ==
  {<<n, "left">> : n \in {m \in 1..Len(h) : h[m].left = c}}
    \cup {<<n, "right">> : n \in {m \in 1..Len(h) : h[m].right = c}}

\* The nodes reachable from node n of heap h through at most k child links.
RECURSIVE ReachableIn(_, _, _)
ReachableIn(h, n, k) ==
  IF n = 0 THEN {}
  ELSE IF k = 0 THEN {n}
  ELSE {n} \cup ReachableIn(h, h[n].left, k - 1)
           \cup ReachableIn(h, h[n].right, k - 1)

\* C20: ownership is tree-shaped with nothing dropped.  In the tree that
\* parse() returned, every node created other than the root is the child
\* of exactly one node, in exactly one slot, the root is the child of none,
\* and every created node is reachable from the root.
C20_TreeOwnership ==
  Parsed =>
    /\ ParentSlots(heap, ast) = {}
    /\ \A c \in 1..Len(heap) :
         c /= ast => Cardinality(ParentSlots(heap, c)) = 1
    /\ ReachableIn(heap, ast, Len(heap)) = 1..Len(heap)

\* C21: repeat-until keeps body and condition in its two slots.  In the
\* tree that parse() returned, every Repeat node has its body, the
\* statement parsed right after the keyword, as first child and an
\* expression, the until-condition, as second child.
C21_RepeatSlots ==
  Parsed =>
    \A n \in 1..Len(heap) :
      heap[n].type = "REPEAT" =>
        /\ heap[n].left = n + 1
        /\ heap[heap[n].left].type \in StatementKinds
        /\ heap[n].right /= 0
        /\ heap[heap[n].right].type \in ExpressionKinds

(***************************************************************************)
(* Scopes: what the text says about blocks, compared with the symbol table *)
(* after each of its changes (trace).                                      *)
(***************************************************************************)

\* The number of blocks open at token i of toks.
DepthAt(toks, i) ==
  Cardinality({j \in 1..(i - 1) : toks[j].type = "LBRACE"})
    - Cardinality({j \in 1..(i - 1) : toks[j].type = "RBRACE"})

\* The declarations of a text: the name declared and the number of blocks
\* open around the declaration.
Declarations(text) ==
  {<<Tokens(text)[i].lexeme, DepthAt(Tokens(text), i)>> :
     i \in {j \in 2..Len(Tokens(text)) :
              /\ Tokens(text)[j].type = "IDENTIFIER"
              /\ Tokens(text)[j - 1].type = "INT"}}

\* The deepest nesting of blocks in a text.
MaxDepth(text) ==
  CHOOSE d \in 0..Len(Tokens(text)) :
    /\ \A i \in 1..(Len(Tokens(text)) + 1) : DepthAt(Tokens(text), i) <= d
    /\ \E i \in 1..(Len(Tokens(text)) + 1) : DepthAt(Tokens(text), i) = d

\* C22: scope discipline.  The statements of a block are analyzed at the
\* level of the block, one more than outside it: every declaration of the
\* text, with d blocks open around it, adds its symbol at scope level d,
\* and the scope counter never exceeds the deepest nesting of the text.
\* When a block is left its symbols are gone and the counter is one less:
\* after every exit_scope no symbol has a level above the counter.
C22_ScopeDiscipline ==
  pc = "analyzed" =>
    /\ \A d \in Declarations(input) :
         \E k \in 1..Len(trace) :
           /\ trace[k].op = "add_symbol"
           /\ trace[k].table[1].name = d[1]
           /\ trace[k].table[1].scope_level = d[2]
    /\ \A k \in 1..Len(trace) :
         /\ trace[k].current_scope <= MaxDepth(input)
         /\ trace[k].op = "exit_scope" =>
              \A i \in 1..Len(trace[k].table) :
                trace[k].table[i].scope_level <= trace[k].current_scope
    /\ current_scope = 0

\* No two symbols of the list have the same name and the same scope level.
UniqueInScope(symbols) ==
  \A i, j \in 1..Len(symbols) :
    (symbols[i].name = symbols[j].name
       /\ symbols[i].scope_level = symbols[j].scope_level) => i = j

\* C23: names are unique within a scope level.  In the symbol table after
\* each of its changes during the analysis, and in the table the analysis
\* ends with, no two symbols have both the same name and the same scope
\* level.
C23_UniqueNames ==
  /\ \A k \in 1..Len(trace) : UniqueInScope(trace[k].table)
  /\ UniqueInScope(table)

\* An analysis refused a redeclaration in a scope while a symbol of the
\* same name was live at another level.
C23_Witness ==
  /\ pc = "analyzed"
  /\ \E j \in 1..Len(sem_out) : sem_out[j].kind = "REDECLARED_VARIABLE"
  /\ \E k \in 1..Len(trace) :
       \E i, j \in 1..Len(trace[k].table) :
         /\ i /= j
         /\ trace[k].table[i].name = trace[k].table[j].name

\* Every symbol of the list has a scope level from 0 to the counter.
WithinScope(symbols, scope) ==
  /\ scope >= 0
  /\ \A i \in 1..Len(symbols) :
       /\ symbols[i].scope_level >= 0
       /\ symbols[i].scope_level <= scope

\* C24: scope bookkeeping stays balanced.  After every change of the symbol
\* table during the analysis the scope counter is at least 0 and no symbol
\* has a scope level above the counter; when the analysis of the program
\* has ended the counter is 0 and every symbol left has scope level 0.
C24_ScopeBalanced ==
  /\ \A k \in 1..Len(trace) :
       WithinScope(trace[k].table, trace[k].current_scope)
  /\ WithinScope(table, current_scope)
  /\ pc = "analyzed" => current_scope = 0

\* An analysis that declared in a nested scope, left it, and ended with a
\* symbol of level 0 in the table.
C24_Witness ==
  /\ pc = "analyzed"
  /\ Len(table) > 0
  /\ \E k \in 1..Len(trace) :
       /\ trace[k].op = "exit_scope"
       /\ k > 1
       /\ \E i \in 1..Len(trace[k - 1].table) :
            trace[k - 1].table[i].scope_level > trace[k].current_scope

\* The assignment nodes of heap h.
Assignments(h) == {n \in 1..Len(h) : h[n].type = "ASSIGN"}

\* An undeclared-variable diagnostic was printed for assignment n of heap
\* h itself (its target) or for a node below it.
FailedAssignment(h, n) ==
  \E k \in 1..Len(sem_out) :
    /\ sem_out[k].kind = "UNDECLARED_VARIABLE"
    /\ sem_out[k].node \in ReachableIn(h, n, Len(h))

\* The changes of the symbol table that set an is_initialized flag.
Initializations == {k \in 1..Len(trace) : trace[k].op = "initialize"}

\* From one change of the table to the next, no symbol that stays in the
\* table loses its is_initialized flag.
FlagsKept ==
  \A k \in 1..(Len(trace) - 1) :
    trace[k + 1].op /= "add_symbol" =>
      \A i \in 1..Len(trace[k].table), j \in 1..Len(trace[k + 1].table) :
        (/\ trace[k].table[i].name = trace[k + 1].table[j].name
         /\ trace[k].table[i].scope_level = trace[k + 1].table[j].scope_level
         /\ trace[k].table[i].is_initialized = 1)
          => trace[k + 1].table[j].is_initialized = 1

\* In a program without a use of an undeclared name, every assignment sets
\* a flag.
EveryAssignmentMarks ==
  Facts(input).undeclared = << >> =>
    Cardinality(Initializations) = Cardinality(Assignments(heap))

\* No more flags are set than there are assignments without an
\* undeclared-variable diagnostic.
OnlyValidAssignmentsMark ==
  Cardinality(Initializations)
    <= Cardinality({n \in Assignments(heap) : ~FailedAssignment(heap, n)})

\* C25: an assignment marks its target initialized if and only if the
\* target is declared and the right-hand side has no undeclared identifier.
\* After the analysis, the number of times a flag was set is the number of
\* assignments of the program when no name is used undeclared, it is never
\* more than the number of assignments without an undeclared-variable
\* diagnostic, every setting turns exactly one flag to 1, and no symbol
\* that stays in the table ever loses its flag.
C25_AssignmentInitializes ==
  pc = "analyzed" =>
    /\ EveryAssignmentMarks
    /\ OnlyValidAssignmentsMark
    /\ FlagsKept

\* The positions of the symbols of this name in the list.
Named(symbols, name) == {i \in 1..Len(symbols) : symbols[i].name = name}

\* What the walk of lookup_symbol returns for name on this list is, of the
\* symbols of that name, the one of the greatest scope level, which is also
\* the one added last; it is NULL only when there is none.
InnermostWins(symbols, name) ==
  LET found == LookupFrom(symbols, name, 1) IN
  IF Named(symbols, name) = {} THEN found = 0
  ELSE /\ found \in Named(symbols, name)
       /\ \A i \in Named(symbols, name) :
            i /= found =>
              /\ symbols[i].scope_level < symbols[found].scope_level
              /\ found < i

\* C26: all-scope lookup is innermost-wins.  On the symbol table after
\* each of its changes during the analysis, and on the final table, the
\* lookup of any word of the program returns the live symbol of that name
\* with the greatest scope level, and nothing only when no live symbol has
\* the name.
C26_InnermostWins ==
  LET toks == Tokens(input) IN
  \A name \in {toks[i].lexeme : i \in 1..Len(toks)} :
    /\ \A k \in 1..Len(trace) : InnermostWins(trace[k].table, name)
    /\ InnermostWins(table, name)

\* An assignment looked up a name with two live symbols and set the flag of
\* the inner one.
C26_Witness ==
  \E k \in 1..Len(trace) :
    /\ trace[k].op = "initialize"
    /\ \E i, j \in 1..Len(trace[k].table) :
         /\ trace[k].table[i].name = trace[k].table[j].name
         /\ trace[k].table[i].scope_level > trace[k].table[j].scope_level
         /\ trace[k].table[i].is_initialized = 1
         /\ trace[k].table[j].is_initialized = 0

(***************************************************************************)
(* parse_primary on its own: the parser is initialized on a text that      *)
(* starts with an identifier and parse_primary is called once.             *)
(***************************************************************************)

PrimaryNames ==
  {"factorial", "factorial1", "factoria", "Factorial", "x", "_factorial"}

PrimaryFollowers ==
  {"", "(1)", "(x + 1) * 2", " + 1", "(factorial(2)) - 1", " (3)",
   "\n(4) x", "(1", "()", ";", " = 1", "((1) + y)", "(1 < 2 == 1)",
   "(1)(2)", ") 1", "(factorial(x) * factorial(1)) factorial"}

PrimaryTexts == {n \o f : n \in PrimaryNames, f \in PrimaryFollowers}

InitPrimary == InitWith(PrimaryTexts)

\* node = parse_primary(); with an identifier as the current token.
ParsePrimary ==
  /\ pc = "inited"
  /\ \E s \in {parse_primary(State)} :
       /\ Becomes(s)
       /\ pc' = IF s.exited THEN "exit" ELSE "primary"
       /\ ast' = IF s.exited THEN 0 ELSE s.ret
  /\ UNCHANGED <<input, calls>>
  /\ UNCHANGED semvars

NextPrimary == ParserInit \/ ParsePrimary

SpecPrimary == InitPrimary /\ [][NextPrimary]_vars

\* The index of the ')' that closes the parenthesis open d deep at token j,
\* 0 when there is none.
RECURSIVE ClosingFrom(_, _, _)
ClosingFrom(toks, j, d) ==
  IF j > Len(toks) THEN 0
  ELSE IF toks[j].type = "LPAREN" THEN ClosingFrom(toks, j + 1, d + 1)
  ELSE IF toks[j].type /= "RPAREN" THEN ClosingFrom(toks, j + 1, d)
  ELSE IF d = 1 THEN j
  ELSE ClosingFrom(toks, j + 1, d - 1)

\* The tokens from lo to hi that a node is made of.
NodeTokens(toks, lo, hi) ==
  {i \in lo..hi : toks[i].type \in {"NUMBER", "IDENTIFIER", "OPERATOR"}}

\* The parser stands on token k of the text: it is the current token and
\* the cursor is behind it; past the last token, the current token is EOF.
StandsOn(toks, k) ==
  IF k > Len(toks) THEN current_token.type = "EOF"
  ELSE /\ current_token.type = toks[k].type
       /\ current_token.lexeme = toks[k].lexeme
       /\ position = toks[k].start + Len(toks[k].lexeme)

\* The text begins with the identifier factorial followed by '('.
IsCall(toks) ==
  /\ Len(toks) >= 2
  /\ toks[1].lexeme = "factorial"
  /\ toks[2].type = "LPAREN"

\* C27: factorial call or identifier leaf.  When parse_primary is called on
\* an identifier, the node it creates is a call node if and only if the
\* identifier is exactly factorial and the next token is '('.  A call that
\* parses has one child, in the first slot, which is the root of the
\* expression made of all the tokens between the parentheses, and the
\* parser then stands on the token after the matching ')'.  In every other
\* case the only node is an Identifier leaf and the parser stands on the
\* second token of the text.  The lookahead leaves the cursor and the
\* current token as they were.
C27_FactorialOrIdentifier ==
  LET toks == Tokens(input) IN
  /\ pc = "inited" =>
       /\ Lookahead(State).position = position
       /\ Lookahead(State).current_token = current_token
  /\ pc \in {"primary", "exit"} =>
       /\ Len(heap) >= 1
       /\ heap[1].token.lexeme = toks[1].lexeme
       /\ heap[1].type = IF IsCall(toks) THEN "FUNCALL" ELSE "IDENTIFIER"
       /\ (IsCall(toks) /\ pc = "primary") =>
            LET close == ClosingFrom(toks, 3, 1) IN
            /\ ast = 1
            /\ heap[1].left /= 0
            /\ heap[1].right = 0
            /\ heap[heap[1].left].type \in ExpressionKinds
            /\ ReachableIn(heap, heap[1].left, Len(heap)) = 2..Len(heap)
            /\ close /= 0
            /\ Len(heap) - 1 = Cardinality(NodeTokens(toks, 3, close - 1))
            /\ StandsOn(toks, close + 1)
       /\ ~IsCall(toks) =>
            /\ pc = "primary"
            /\ ast = 1
            /\ Len(heap) = 1
            /\ heap[1].left = 0
            /\ heap[1].right = 0
            /\ StandsOn(toks, 2)

\* A call factorial(...) was parsed with a nested call in its argument and
\* tokens left after the closing parenthesis.
C27_Witness ==
  /\ pc = "primary"
  /\ IsCall(Tokens(input))
  /\ \E n \in 2..Len(heap) : heap[n].type = "FUNCALL"
  /\ current_token.type /= "EOF"

\* A text without blocks, in which no name is used undeclared: apart from
\* the top-level statements it has only the single statements that are the
\* bodies of if, while and repeat.
SingleStatementBodies(text) ==
  /\ \A i \in 1..Len(Tokens(text)) :
       Tokens(text)[i].type \notin {"LBRACE", "RBRACE", "ERROR"}
  /\ Facts(text).undeclared = << >>

\* C28: the body of a repeat-until is analyzed as a statement.  For a
\* program whose loop and branch bodies are single statements and that uses
\* no undeclared name, every declaration of the text, one in a repeat body
\* included, adds a symbol of its name; every assignment, one in a repeat
\* body included, sets the flag of its target; and the
\* uninitialized-variable diagnostics for a name are at most as many as
\* the reads of it before its first assignment was complete, so the read
\* in the until-condition or after the loop of a variable assigned in the
\* body gets none.
C28_RepeatBodyAnalyzed ==
  (pc = "analyzed" /\ SingleStatementBodies(input)) =>
    /\ \A d \in Declarations(input) :
         \E k \in 1..Len(trace) :
           /\ trace[k].op = "add_symbol"
           /\ trace[k].table[1].name = d[1]
    /\ Cardinality(Initializations) = Cardinality(Assignments(heap))
    /\ \A d \in Declarations(input) :
         Len(DiagnosticsFor("UNINITIALIZED_VARIABLE", d[1]))
           <= Len(SelectSeq(Facts(input).early, LAMBDA r : r = d[1]))

=============================================================================
